---- MODULE Spec2Model ----
(***************************************************************************)
(* Model of the Apache LogFormat tokenizer (src/src/parser.rs,             *)
(* src/src/directive.rs, src/src/lib.rs).                                  *)
(*                                                                         *)
(* A byte string is a sequence of one-character strings.  NonUtf8 stands   *)
(* for a byte (0xFF) that can occur in no UTF-8 encoding.  A parser result *)
(* (nom's IResult) is one of                                               *)
(*      [kind |-> "Done", rest, out]     [kind |-> "Error", err]           *)
(*      [kind |-> "Incomplete", needed]                                    *)
(* A Directive is [tag, arg]: arg is the text payload, the one-element     *)
(* sequence naming the PortType / PIDType, or <<>>.                        *)
(***************************************************************************)
EXTENDS Integers, Sequences, FiniteSets, TLC

VARIABLES i, input, res, spans, ret, pc, entry

vars == <<i, input, res, spans, ret, pc, entry>>

\* ------------------------------------------------------------------ bounds
\* longest input of the exhaustive family (all byte strings over CoreAlphabet)
MaxLen == 4
\* longest brace body of the `%{name}marker` family
MaxName == 2
\* most segments of the concatenation family
MaxSegs == 3

\* ------------------------------------------------------------------- bytes
NonUtf8 == "0xFF"

\* pub const CLF: "%h %l %u %t \"%r\" %>s %b"
CLF ==
    <<"%","h"," ","%","l"," ","%","u"," ","%","t"," ","\"","%","r","\"",
      " ","%",">","s"," ","%","b">>

\* ----------------------------------------------------------------- IResult
Done(rest, out) == [kind |-> "Done", rest |-> rest, out |-> out]

Error(e) == [kind |-> "Error", err |-> e]

Incomplete(n) == [kind |-> "Incomplete", needed |-> n]

\* Result<T, E> of a conversion
Ok(v) == [ok |-> TRUE, val |-> v]

Err == [ok |-> FALSE]

\* --------------------------------------------------------------- Directive
Unit(t) == [tag |-> t, arg |-> <<>>]

Text(t, s) == [tag |-> t, arg |-> s]

Literal(s) == [tag |-> "Literal", arg |-> s]

Port(p) == [tag |-> "Port", arg |-> <<p>>]

PID(p) == [tag |-> "PID", arg |-> <<p>>]

\* the match of Directive::from_str
from_str_match(s) ==
    CASE s = <<"%">> -> Ok(Literal(<<"%">>))
      [] s = <<"a">> -> Ok(Unit("ClientIP"))
      [] s = <<"A">> -> Ok(Unit("LocalIP"))
      [] s = <<"B">> -> Ok(Unit("ResSizeExcludingHeaders"))
      [] s = <<"b">> -> Ok(Unit("ResSize"))
      [] s = <<"D">> -> Ok(Unit("ReqTime"))
      [] s = <<"f">> -> Ok(Unit("Filename"))
      [] s = <<"h">> -> Ok(Unit("Hostname"))
      [] s = <<"H">> -> Ok(Unit("Protocol"))
      [] s = <<"k">> -> Ok(Unit("KeepAlive"))
      [] s = <<"l">> -> Ok(Unit("Logname"))
      [] s = <<"L">> -> Ok(Unit("ErrID"))
      [] s = <<"m">> -> Ok(Unit("Method"))
      [] s = <<"p">> -> Ok(Port("Canonical"))
      [] s = <<"P">> -> Ok(PID("PID"))
      [] s = <<"q">> -> Ok(Unit("Query"))
      [] s = <<"r">> -> Ok(Unit("ReqFirstLine"))
      [] s = <<"R">> -> Ok(Unit("ResHandler"))
      [] s = <<"s">> -> Ok(Unit("Status"))
      [] s = <<"t">> -> Ok(Unit("ReqRecvTime"))
      [] s = <<"T">> -> Ok(Unit("ReqServeTime"))
      [] s = <<"u">> -> Ok(Unit("User"))
      [] s = <<"U">> -> Ok(Unit("Path"))
      [] s = <<"v">> -> Ok(Unit("ServerName"))
      [] s = <<"V">> -> Ok(Unit("CanonicalServerName"))
      [] s = <<"X">> -> Ok(Unit("ResStatus"))
      [] s = <<"I">> -> Ok(Unit("SizeReceived"))
      [] s = <<"O">> -> Ok(Unit("SizeSent"))
      [] s = <<"S">> -> Ok(Unit("Size"))
      [] OTHER -> Err

\* faulty variant of Directive::from_str: the arms of "b" and "B" are swapped
from_str_swapped(s) ==
    from_str_match(IF s = <<"b">> THEN <<"B">>
                   ELSE IF s = <<"B">> THEN <<"b">> ELSE s)

\* Directive::from_str
from_str(s) == from_str_match(s)

\* str::from_utf8
from_utf8(bs) ==
    IF \E k \in 1..Len(bs) : bs[k] = NonUtf8 THEN Err ELSE Ok(bs)

\* String::from_utf8_lossy, which replaces an invalid byte by U+FFFD where
\* str::from_utf8 fails
from_utf8_lossy(bs) ==
    Ok([k \in 1..Len(bs) |-> IF bs[k] = NonUtf8 THEN "U+FFFD" ELSE bs[k]])

\* ------------------------------------------------------- parser combinators
\* A parser is a record naming a nom macro and its arguments; Run applies it.
Char(c) == [op |-> "char", c |-> c]

IsNot(set) == [op |-> "is_not", set |-> set]

Tag(t) == [op |-> "tag", t |-> t]

TakeStr(n) == [op |-> "take_str", n |-> n]

Tuple(ps) == [op |-> "tuple", ps |-> ps]

Alt(ps) == [op |-> "alt", ps |-> ps]

\* map!(p, f) and map_res!(p, f); f is one of the records below
Map(p, f) == [op |-> "map", p |-> p, f |-> f]

MapRes(p, f) == [op |-> "map_res", p |-> p, f |-> f]

\* the functions given to map!, map_res! and the result expression of do_parse!
Pick(k) == [fn |-> "pick", k |-> k]

Const(v) == [fn |-> "const", v |-> v]

Variant(t) == [fn |-> "variant", t |-> t]

PortOf(k) == [fn |-> "port", k |-> k]

PIDOf(k) == [fn |-> "pid", k |-> k]

Fn(name) == [fn |-> name]

\* delimited!(a, b, c), terminated!(a, b), preceded!(a, b), do_parse!(.. >> (f))
Delimited(a, b, c) == Map(Tuple(<<a, b, c>>), Pick(2))

Terminated(a, b) == Map(Tuple(<<a, b>>), Pick(1))

Preceded(a, b) == Map(Tuple(<<a, b>>), Pick(2))

DoParse(ps, f) == Map(Tuple(ps), f)

\* f applied to the output v of a parser (map!, do_parse!)
Apply(f, v) ==
    CASE f.fn = "pick" -> v[f.k]
      [] f.fn = "const" -> f.v
      [] f.fn = "variant" -> Text(f.t, v)
      [] f.fn = "port" -> Port(v[f.k])
      [] f.fn = "pid" -> PID(v[f.k])

\* the fallible f applied to v (map_res!): a Result
ApplyRes(f, v) ==
    CASE f.fn = "from_utf8" -> from_utf8(v)
      [] f.fn = "from_utf8_lossy" -> from_utf8_lossy(v)
      [] f.fn = "from_str" -> from_str(v)

\* char!(c)
char(c, in) ==
    IF Len(in) = 0 THEN Incomplete(1)
    ELSE IF in[1] = c THEN Done(Tail(in), c) ELSE Error("Char")

\* position of the first byte of in that is in set, counted from 0; -1 when
\* there is none
Position(set, in) ==
    IF \E k \in 1..Len(in) : in[k] \in set
    THEN (CHOOSE k \in 1..Len(in) :
            in[k] \in set /\ \A j \in 1..(k - 1) : in[j] \notin set) - 1
    ELSE -1

\* is_not!(set)
is_not(set, in) ==
    IF Position(set, in) = 0 THEN Error("IsNot")
    ELSE IF Position(set, in) > 0
         THEN Done(SubSeq(in, Position(set, in) + 1, Len(in)),
                   SubSeq(in, 1, Position(set, in)))
         ELSE Done(<<>>, in)

\* tag!(t)
tag(t, in) ==
    IF Len(in) < Len(t)
    THEN IF in # SubSeq(t, 1, Len(in)) THEN Error("Tag") ELSE Incomplete(Len(t))
    ELSE IF SubSeq(in, 1, Len(t)) # t THEN Error("Tag")
         ELSE Done(SubSeq(in, Len(t) + 1, Len(in)), t)

\* take!(n)
take(n, in) ==
    IF Len(in) < n THEN Incomplete(n)
    ELSE Done(SubSeq(in, n + 1, Len(in)), SubSeq(in, 1, n))

\* map!: the output of a Done replaced by f of it
map(r, f) ==
    IF r.kind = "Done" THEN Done(r.rest, Apply(f, r.out)) ELSE r

\* map_res!: the output of a Done replaced by the value of f of it, or
\* Error(MapRes) when f fails
map_res(r, f) ==
    IF r.kind # "Done" THEN r
    ELSE IF ApplyRes(f, r.out).ok THEN Done(r.rest, ApplyRes(f, r.out).val)
    ELSE Error("MapRes")

\* the one element of a singleton
Only(S) == CHOOSE y \in S : TRUE

RECURSIVE Run(_, _)
RECURSIVE RunTuple(_, _, _, _, _)
RECURSIVE RunAlt(_, _, _)

\* tuple_parser!: the parsers ps[k..] in sequence on in, after consumed bytes
\* and with the outputs outs of ps[1..k-1].  An Error ends the sequence; an
\* Incomplete is reported with the bytes consumed so far added.
RunTuple(ps, k, in, consumed, outs) ==
    IF k > Len(ps) THEN Done(in, outs)
    ELSE Only({
            IF r.kind = "Error" THEN r
            ELSE IF r.kind = "Incomplete" THEN Incomplete(consumed + r.needed)
            ELSE RunTuple(ps, k + 1, r.rest,
                          consumed + (Len(in) - Len(r.rest)), Append(outs, r.out))
            : r \in {Run(ps[k], in)}})

\* An alternation that treats a cut-off branch like a failed one and goes on
\* to the next branch (the behaviour of a complete-input alternation).
RECURSIVE RunAlt_complete(_, _, _)
RunAlt_complete(ps, k, in) ==
    IF k > Len(ps) THEN Error("Alt")
    ELSE Only({IF r.kind = "Done" THEN r ELSE RunAlt_complete(ps, k + 1, in)
               : r \in {Run(ps[k], in)}})

\* alt!: the first of ps[k..] that is Done or Incomplete on in; Error(Alt)
\* when every one is an Error
RunAlt(ps, k, in) ==
    IF k > Len(ps) THEN Error("Alt")
    ELSE Only({IF r.kind = "Error" THEN RunAlt(ps, k + 1, in) ELSE r
               : r \in {Run(ps[k], in)}})

\* parser p applied to the bytes in
Run(p, in) ==
    CASE p.op = "char" -> char(p.c, in)
      [] p.op = "is_not" -> is_not(p.set, in)
      [] p.op = "tag" -> tag(p.t, in)
      [] p.op = "take_str" -> Only({map_res(r, Fn("from_utf8")) : r \in {take(p.n, in)}})
      [] p.op = "tuple" -> RunTuple(p.ps, 1, in, 0, <<>>)
      [] p.op = "alt" -> RunAlt(p.ps, 1, in)
      [] p.op = "map" -> Only({map(r, p.f) : r \in {Run(p.p, in)}})
      [] p.op = "map_res" -> Only({map_res(r, p.f) : r \in {Run(p.p, in)}})

\* ----------------------------------------------------------------- parsers
\* named!(parens, delimited!(char!('{'), is_not!("}"), char!('}')))
parens == Delimited(Char("{"), IsNot({"}"}), Char("}"))

peer_ip_parser ==
    DoParse(<<Char("{"), Char("c"), Char("}"), Char("a")>>, Const(Unit("PeerIP")))

req_cookie_parser ==
    Map(MapRes(Terminated(parens, Char("C")), Fn("from_utf8")), Variant("Cookie"))

env_var_parser ==
    Map(MapRes(Terminated(parens, Char("e")), Fn("from_utf8")), Variant("EnvVar"))

req_header_parser ==
    Map(MapRes(Terminated(parens, Char("i")), Fn("from_utf8")), Variant("ReqHeader"))

note_parser ==
    Map(MapRes(Terminated(parens, Char("n")), Fn("from_utf8")), Variant("Note"))

res_header_parser ==
    Map(MapRes(Terminated(parens, Char("o")), Fn("from_utf8")), Variant("ResHeader"))

port_type_parser_c ==
    Map(Tag(<<"c","a","n","o","n","i","c","a","l">>), Const("Canonical"))

port_type_parser_l == Map(Tag(<<"l","o","c","a","l">>), Const("Local"))

port_type_parser_r == Map(Tag(<<"r","e","m","o","t","e">>), Const("Remote"))

port_type_parser ==
    Alt(<<port_type_parser_c, port_type_parser_l, port_type_parser_r>>)

\* faulty variant of custom_port_parser: a brace body that is none of the
\* three words is accepted and gives the default of `%p`
custom_port_parser_fallback ==
    DoParse(<<Char("{"),
              Alt(<<Terminated(port_type_parser, Char("}")),
                    Map(Terminated(IsNot({"}"}), Char("}")), Const("Canonical"))>>),
              Char("p")>>,
            PortOf(2))

custom_port_parser ==
    DoParse(<<Char("{"), port_type_parser, Char("}"), Char("p")>>, PortOf(2))

pid_type_parser_p == Map(Tag(<<"p","i","d">>), Const("PID"))

pid_type_parser_t == Map(Tag(<<"t","i","d">>), Const("TID"))

pid_type_parser_h == Map(Tag(<<"h","e","x","t","i","d">>), Const("HexTID"))

pid_type_parser ==
    Alt(<<pid_type_parser_p, pid_type_parser_t, pid_type_parser_h>>)

custom_pid_parser ==
    DoParse(<<Char("{"), pid_type_parser, Char("}"), Char("P")>>, PIDOf(2))

\* faulty variant of final_status_parser: `%>s` yields Status, the directive
\* of `%s`
final_status_parser_as_status ==
    DoParse(<<Char(">"), Char("s")>>, Const(Unit("Status")))

final_status_parser ==
    DoParse(<<Char(">"), Char("s")>>, Const(Unit("FinalStatus")))

req_trailer_parser ==
    Map(MapRes(Terminated(parens, Tag(<<"^","t","i">>)), Fn("from_utf8")),
        Variant("ReqTrailer"))

\* faulty variant of res_trailer_parser: the tag of req_trailer_parser, "^ti"
res_trailer_parser_ti ==
    Map(MapRes(Terminated(parens, Tag(<<"^","t","i">>)), Fn("from_utf8")),
        Variant("ResTrailer"))

res_trailer_parser ==
    Map(MapRes(Terminated(parens, Tag(<<"^","t","o">>)), Fn("from_utf8")),
        Variant("ResTrailer"))

\* named!(pub directive_parser, preceded!(char!('%'), alt!(...)))
directive_parser ==
    Preceded(Char("%"),
             Alt(<<peer_ip_parser,
                   req_cookie_parser,
                   env_var_parser,
                   req_header_parser,
                   note_parser,
                   res_header_parser,
                   custom_port_parser,
                   custom_pid_parser,
                   final_status_parser,
                   req_trailer_parser,
                   res_trailer_parser,
                   MapRes(TakeStr(1), Fn("from_str"))>>))

\* faulty variant of constant_parser: is_not!("{") in place of is_not!("%")
constant_parser_wrong_set ==
    Map(MapRes(IsNot({"{"}), Fn("from_utf8")), Variant("Literal"))

\* faulty variant of constant_parser: is_not!("}") in place of is_not!("%")
constant_parser_up_to_brace ==
    Map(MapRes(IsNot({"}"}), Fn("from_utf8")), Variant("Literal"))

\* faulty variant of constant_parser: is_not!("%}"), so a text run also ends
\* at a `}`
constant_parser_stops_at_brace ==
    Map(MapRes(IsNot({"%", "}"}), Fn("from_utf8")), Variant("Literal"))

\* faulty variant of constant_parser: String::from_utf8_lossy in place of
\* str::from_utf8
constant_parser_lossy ==
    Map(MapRes(IsNot({"%"}), Fn("from_utf8_lossy")), Variant("Literal"))

\* named!(constant_parser, map!(map_res!(is_not!("%"), from_utf8), Literal))
constant_parser ==
    Map(MapRes(IsNot({"%"}), Fn("from_utf8")), Variant("Literal"))

\* the parser many0! repeats: alt!(directive_parser | constant_parser)
token_parser == Alt(<<directive_parser, constant_parser>>)

\* ------------------------------------------------------------------ inputs
\* all byte strings over alphabet A of length at most n
StringsUpTo(A, n) == UNION {[1..k -> A] : k \in 0..n}

CoreAlphabet == {"%", "{", "}", "a", "c", "C", ">", "s", NonUtf8}

CoreInputs == StringsUpTo(CoreAlphabet, MaxLen)

\* the bytes that may follow a `%`: every code of Directive::from_str, the
\* markers of the parameterized forms, and bytes that are neither
CodeBytes ==
    {"%", "a", "A", "B", "b", "D", "f", "h", "H", "k", "l", "L", "m", "p",
     "P", "q", "r", "R", "s", "t", "T", "u", "U", "v", "V", "X", "I", "O", "S"}

OtherBytes ==
    {"c", "C", "e", "i", "n", "o", "^", "z", "Z", "d", "x", " ", "}", "-",
     "0", "\"", NonUtf8}

DispatchInputs ==
    {<<"%", c>> \o suffix :
        c \in CodeBytes \cup OtherBytes,
        suffix \in {<<>>, <<"a">>, <<"%">>, <<"}">>}}

\* brace bodies: every short string over NameAlphabet, the six selector
\* words of port_type_parser / pid_type_parser, and near misses of them
NameAlphabet == {"c", "F", "%", "{", "}", NonUtf8}

BraceWords ==
    {<<"c","a","n","o","n","i","c","a","l">>, <<"l","o","c","a","l">>,
     <<"r","e","m","o","t","e">>, <<"p","i","d">>, <<"t","i","d">>,
     <<"h","e","x","t","i","d">>,
     <<"q","u","u","z">>, <<"c","o","r","g","e">>,
     <<"c","a","n","o","n","i","c","a">>, <<"l","o","c","a","l","x">>,
     <<"L","o","c","a","l">>, <<"p","i">>, <<"t","i","d","d">>,
     <<"h","e","x">>, <<"P","I","D">>}

Names == StringsUpTo(NameAlphabet, MaxName) \cup BraceWords

Markers ==
    {<<"C">>, <<"e">>, <<"i">>, <<"n">>, <<"o">>, <<"^","t","i">>,
     <<"^","t","o">>, <<"p">>, <<"P">>, <<"a">>,
     <<>>, <<"^">>, <<"^","t">>, <<"^","t","x">>, <<"x">>, <<"t">>}

Contexts ==
    {<<<<>>, <<>>>>, <<<<"%","h">>, <<>>>>, <<<<"x">>, <<" ">>>>,
     <<<<>>, <<"%","b">>>>}

BraceInputs ==
    {c[1] \o <<"%", "{">> \o name \o <<"}">> \o marker \o c[2] :
        name \in Names, marker \in Markers, c \in Contexts}

\* concatenations of at most MaxSegs segments: directives of every form,
\* text runs, and fragments that are no directive
Segments ==
    {<<"%","h">>, <<"%","%">>, <<"%",">","s">>, <<"%","{","c","}","a">>,
     <<"%","{","F","}","i">>, <<"%","{","F","}","^","t","o">>,
     <<"%","{","l","o","c","a","l","}","p">>, <<" ">>, <<"x","y">>,
     <<NonUtf8>>, <<"%","z">>, <<"%","{">>}

RECURSIVE Flatten(_)
Flatten(ss) == IF ss = <<>> THEN <<>> ELSE Head(ss) \o Flatten(Tail(ss))

SegmentInputs == {Flatten(ss) : ss \in StringsUpTo(Segments, MaxSegs)}

Inputs ==
    CoreInputs \cup DispatchInputs \cup BraceInputs \cup SegmentInputs \cup {CLF}

\* ----------------------------------------------------------- state machine
\* i      the byte string the caller passes ($i of many0!)
\* input  many0!'s `input`: what is left to parse
\* res    many0!'s `res`: the Vec<Directive> built so far
\* spans  for each element of res, <<offset, length>> of the bytes it matched
\* ret    the IResult the entry point returned
NoResult == [kind |-> "None"]

Init ==
    /\ i \in Inputs
    /\ input = i
    /\ res = <<>>
    /\ spans = <<>>
    /\ ret = NoResult
    /\ pc = "idle"
    /\ entry = "none"

\* directive_parser(i), the single-directive entry point
CallDirectiveParser ==
    /\ pc = "idle"
    /\ ret' = Run(directive_parser, i)
    /\ pc' = "returned"
    /\ entry' = "directive_parser"
    /\ UNCHANGED <<i, input, res, spans>>

\* logformat_parser(i): many0! starts with input = $i and an empty res
CallLogformatParser ==
    /\ pc = "idle"
    /\ pc' = "loop"
    /\ entry' = "logformat_parser"
    /\ UNCHANGED <<i, input, res, spans, ret>>

\* many0!: the input is used up
Many0Exhausted ==
    /\ pc = "loop"
    /\ Len(input) = 0
    /\ ret' = Done(input, res)
    /\ pc' = "returned"
    /\ UNCHANGED <<i, input, res, spans, entry>>

\* many0!: the repeated parser fails; the loop ends with what it has
Many0Error ==
    /\ pc = "loop"
    /\ Len(input) # 0
    /\ Run(token_parser, input).kind = "Error"
    /\ ret' = Done(input, res)
    /\ pc' = "returned"
    /\ UNCHANGED <<i, input, res, spans, entry>>

\* many0!: the repeated parser needs more bytes
Many0Incomplete ==
    /\ pc = "loop"
    /\ Len(input) # 0
    /\ Run(token_parser, input).kind = "Incomplete"
    /\ ret' = Incomplete(Run(token_parser, input).needed + (Len(i) - Len(input)))
    /\ pc' = "returned"
    /\ UNCHANGED <<i, input, res, spans, entry>>

\* A driver step that appends the token but forgets to move the input
\* position on to the rest the token parser returned.
Many0Push_no_advance ==
    /\ pc = "loop"
    /\ Len(input) # 0
    /\ Run(token_parser, input).kind = "Done"
    /\ LET r == Run(token_parser, input)
       IN  /\ res' = Append(res, r.out)
           /\ spans' = Append(spans,
                              <<Len(i) - Len(input), Len(input) - Len(r.rest)>>)
           /\ UNCHANGED <<input, ret, pc>>
    /\ UNCHANGED <<i, entry>>

\* many0!: the repeated parser yields a token; a trip that consumed nothing
\* ends the loop with Error(Many0)
Many0Push ==
    /\ pc = "loop"
    /\ Len(input) # 0
    /\ Run(token_parser, input).kind = "Done"
    /\ LET r == Run(token_parser, input)
       IN  IF Len(r.rest) = Len(input)
           THEN /\ ret' = Error("Many0")
                /\ pc' = "returned"
                /\ UNCHANGED <<input, res, spans>>
           ELSE /\ res' = Append(res, r.out)
                /\ spans' = Append(spans,
                                   <<Len(i) - Len(input), Len(input) - Len(r.rest)>>)
                /\ input' = r.rest
                /\ UNCHANGED <<ret, pc>>
    /\ UNCHANGED <<i, entry>>

Next ==
    \/ CallDirectiveParser
    \/ CallLogformatParser
    \/ Many0Exhausted
    \/ Many0Error
    \/ Many0Incomplete
    \/ Many0Push

Spec == Init /\ [][Next]_vars

\* ------------------------------------------------------------ result views
DirectiveReturned == pc = "returned" /\ entry = "directive_parser"

DriverReturned == pc = "returned" /\ entry = "logformat_parser"

\* the driver tokenized every byte of i
FullyConsumed == DriverReturned /\ ret.kind = "Done" /\ ret.rest = <<>>

HasByte(s, b) == \E k \in 1..Len(s) : s[k] = b

TypeOK ==
    /\ pc \in {"idle", "loop", "returned"}
    /\ ret.kind \in {"None", "Done", "Error", "Incomplete"}
    /\ Len(res) = Len(spans)

ValidUtf8(s) == ~HasByte(s, NonUtf8)

\* the driver stopped at a `%` before the input was used up
StoppedAtPercent == DriverReturned /\ Len(input) > 0 /\ input[1] = "%"

\* ------------------------------------------------------------------ claims
\* C1: a malformed suffix is never dropped silently: when the driver stops at
\* a `%` that cannot be completed into a directive, the outcome is not the
\* success outcome, and the success outcome (Done) is returned only when
\* every byte of the input was tokenized.
C1_MalformedIsSignalled ==
    /\ StoppedAtPercent => ret.kind # "Done"
    /\ (DriverReturned /\ ret.kind = "Done") => ret.rest = <<>>

\* C2: when the driver meets its first failure at a `%` at offset N, for
\* every kind of failure, the result holds the tokens parsed from the bytes
\* before N, in order, and identifies N.
C2_FailureCarriesTokensAndOffset ==
    StoppedAtPercent =>
        /\ ret.kind = "Done"
        /\ ret.out = res
        /\ Len(i) - Len(ret.rest) = Len(i) - Len(input)

\* C3 as stated: every format string s without `%`, of any length, is
\* consumed whole and yields exactly one token, Literal(s).
C3_AnyPercentFreeString ==
    (DriverReturned /\ ~HasByte(i, "%")) => ret = Done(<<>>, <<Literal(i)>>)

\* C3 (amended): every non-empty, valid UTF-8 format string s without `%` is
\* consumed whole and yields exactly one token, Literal(s).
C3_PercentFreeString ==
    (DriverReturned /\ ~HasByte(i, "%") /\ i # <<>> /\ ValidUtf8(i))
        => ret = Done(<<>>, <<Literal(i)>>)

C3_Witness ==
    /\ DriverReturned /\ ~HasByte(i, "%") /\ ValidUtf8(i) /\ Len(i) >= 3
    /\ ret = Done(<<>>, <<Literal(i)>>)

\* ---- the format-string grammar the claims are stated against
\* the single-character codes and their directives
CodeTable ==
    ("a" :> Unit("ClientIP")) @@ ("A" :> Unit("LocalIP")) @@
    ("B" :> Unit("ResSizeExcludingHeaders")) @@ ("b" :> Unit("ResSize")) @@
    ("D" :> Unit("ReqTime")) @@ ("f" :> Unit("Filename")) @@
    ("h" :> Unit("Hostname")) @@ ("H" :> Unit("Protocol")) @@
    ("k" :> Unit("KeepAlive")) @@ ("l" :> Unit("Logname")) @@
    ("L" :> Unit("ErrID")) @@ ("m" :> Unit("Method")) @@
    ("p" :> Port("Canonical")) @@ ("P" :> PID("PID")) @@
    ("q" :> Unit("Query")) @@ ("r" :> Unit("ReqFirstLine")) @@
    ("R" :> Unit("ResHandler")) @@ ("s" :> Unit("Status")) @@
    ("t" :> Unit("ReqRecvTime")) @@ ("T" :> Unit("ReqServeTime")) @@
    ("u" :> Unit("User")) @@ ("U" :> Unit("Path")) @@
    ("v" :> Unit("ServerName")) @@ ("V" :> Unit("CanonicalServerName")) @@
    ("X" :> Unit("ResStatus")) @@ ("I" :> Unit("SizeReceived")) @@
    ("O" :> Unit("SizeSent")) @@ ("S" :> Unit("Size")) @@
    ("%" :> Literal(<<"%">>))

\* the markers that take a free-text name, and their variants
NameMarkers ==
    (<<"C">> :> "Cookie") @@ (<<"e">> :> "EnvVar") @@ (<<"i">> :> "ReqHeader") @@
    (<<"n">> :> "Note") @@ (<<"o">> :> "ResHeader") @@
    (<<"^","t","i">> :> "ReqTrailer") @@ (<<"^","t","o">> :> "ResTrailer")

PortWords ==
    (<<"c","a","n","o","n","i","c","a","l">> :> "Canonical") @@
    (<<"l","o","c","a","l">> :> "Local") @@ (<<"r","e","m","o","t","e">> :> "Remote")

PIDWords ==
    (<<"p","i","d">> :> "PID") @@ (<<"t","i","d">> :> "TID") @@
    (<<"h","e","x","t","i","d">> :> "HexTID")

StartsWith(s, t) == Len(s) >= Len(t) /\ SubSeq(s, 1, Len(t)) = t

\* The valid directive s begins with, as [len, tok], or [len |-> 0] when s
\* begins with none.  s[1] is `%`.
DirectiveAt(s) ==
    IF Len(s) < 2 THEN [len |-> 0]
    ELSE IF s[2] \in DOMAIN CodeTable THEN [len |-> 2, tok |-> CodeTable[s[2]]]
    ELSE IF s[2] = ">" THEN
        IF Len(s) >= 3 /\ s[3] = "s"
        THEN [len |-> 3, tok |-> Unit("FinalStatus")] ELSE [len |-> 0]
    ELSE IF s[2] # "{" \/ ~HasByte(s, "}") THEN [len |-> 0]
    ELSE
        LET close == Position({"}"}, s) + 1
            name  == SubSeq(s, 3, close - 1)
            after == SubSeq(s, close + 1, Len(s))
            ms    == {m \in DOMAIN NameMarkers : StartsWith(after, m)}
        IN  IF name = <<>> THEN [len |-> 0]
            ELSE IF name = <<"c">> /\ StartsWith(after, <<"a">>)
                THEN [len |-> close + 1, tok |-> Unit("PeerIP")]
            ELSE IF ms # {}
                THEN LET m == CHOOSE m \in ms : TRUE
                     IN  [len |-> close + Len(m), tok |-> Text(NameMarkers[m], name)]
            ELSE IF name \in DOMAIN PortWords /\ StartsWith(after, <<"p">>)
                THEN [len |-> close + 1, tok |-> Port(PortWords[name])]
            ELSE IF name \in DOMAIN PIDWords /\ StartsWith(after, <<"P">>)
                THEN [len |-> close + 1, tok |-> PID(PIDWords[name])]
            ELSE [len |-> 0]

\* length of the longest prefix of s without `%`
RunLength(s) == IF HasByte(s, "%") THEN Position({"%"}, s) ELSE Len(s)

\* The tokens of s read as a concatenation of valid directives and `%`-free
\* text runs, one token per directive and one Literal per run, left to
\* right: [ok |-> TRUE, toks], or [ok |-> FALSE] when s is no such
\* concatenation.
RECURSIVE Tokens(_)
Tokens(s) ==
    IF s = <<>> THEN [ok |-> TRUE, toks |-> <<>>]
    ELSE IF s[1] # "%" THEN
        LET n    == RunLength(s)
            tail == Tokens(SubSeq(s, n + 1, Len(s)))
        IN  IF tail.ok
            THEN [ok |-> TRUE, toks |-> <<Literal(SubSeq(s, 1, n))>> \o tail.toks]
            ELSE [ok |-> FALSE]
    ELSE
        LET d == DirectiveAt(s)
        IN  IF d.len = 0 THEN [ok |-> FALSE]
            ELSE LET tail == Tokens(SubSeq(s, d.len + 1, Len(s)))
                 IN  IF tail.ok
                     THEN [ok |-> TRUE, toks |-> <<d.tok>> \o tail.toks]
                     ELSE [ok |-> FALSE]

CLFTokens ==
    <<Unit("Hostname"), Literal(<<" ">>), Unit("Logname"), Literal(<<" ">>),
      Unit("User"), Literal(<<" ">>), Unit("ReqRecvTime"), Literal(<<" ", "\"">>),
      Unit("ReqFirstLine"), Literal(<<"\"", " ">>), Unit("FinalStatus"),
      Literal(<<" ">>), Unit("ResSize")>>

\* C4 as stated: a concatenation of valid directives and `%`-free text runs
\* is consumed whole and yields one token per directive and one Literal per
\* run, in input order; CLF yields its 13 tokens.
C4_ValidConcatenation ==
    DriverReturned =>
        /\ Tokens(i).ok => ret = Done(<<>>, Tokens(i).toks)
        /\ i = CLF => ret = Done(<<>>, CLFTokens)

\* C4 (amended): the same for concatenations that are valid UTF-8.
C4_ValidUtf8Concatenation ==
    DriverReturned =>
        /\ (Tokens(i).ok /\ ValidUtf8(i)) => ret = Done(<<>>, Tokens(i).toks)
        /\ i = CLF => ret = Done(<<>>, CLFTokens)

C4_Witness ==
    /\ DriverReturned /\ Tokens(i).ok /\ ValidUtf8(i)
    /\ Len(ret.out) >= 3
    /\ \E k \in 1..Len(ret.out) : ret.out[k].tag \in {"Cookie", "ReqTrailer"}
    /\ \E k \in 1..Len(ret.out) : ret.out[k].tag = "Literal"

C4_WitnessCLF == DriverReturned /\ i = CLF /\ ret = Done(<<>>, CLFTokens)

\* C5: for every character c after `%`, directive_parser yields the
\* directive the dispatch table assigns to c and consumes exactly `%c`; for
\* a c outside the table that begins no parameterized or `>s` form the
\* attempt fails.
C5_SingleCharacterDispatch ==
    (DirectiveReturned /\ Len(i) >= 2 /\ i[1] = "%") =>
        IF i[2] \in DOMAIN CodeTable
        THEN ret = Done(SubSeq(i, 3, Len(i)), CodeTable[i[2]])
        ELSE i[2] \notin {"{", ">"} => ret.kind = "Error"

C5_Witness ==
    /\ DirectiveReturned /\ Len(i) = 3 /\ i[1] = "%" /\ i[2] = "B"
    /\ ret = Done(<<i[3]>>, Unit("ResSizeExcludingHeaders"))

C5_WitnessUnknown ==
    DirectiveReturned /\ i = <<"%", "z">> /\ ret.kind = "Error"

\* i is `%{name}m`: the name between the braces
NameOf(m) == SubSeq(i, 3, Len(i) - Len(m) - 1)

IsBraceForm(m) ==
    /\ Len(i) >= Len(m) + 3
    /\ i[1] = "%" /\ i[2] = "{"
    /\ SubSeq(i, Len(i) - Len(m), Len(i)) = <<"}">> \o m

\* C6 as stated: for every name and every marker M of C, e, i, n, o, ^ti,
\* ^to, directive_parser on `%{name}M` succeeds (consumes it whole) exactly
\* when name is a non-empty run of bytes other than `}`, and then yields M's
\* variant with name as payload; `{}` is a failure.
C6_NamedDirectives ==
    DirectiveReturned =>
        \A m \in DOMAIN NameMarkers :
            IsBraceForm(m) =>
                LET name == NameOf(m)
                IN  /\ (ret.kind = "Done" /\ ret.rest = <<>>)
                            <=> (name # <<>> /\ ~HasByte(name, "}"))
                    /\ (ret.kind = "Done" /\ ret.rest = <<>>)
                            => ret.out = Text(NameMarkers[m], name)
                    /\ name = <<>> => ret.kind # "Done"

\* C6 (amended): ... exactly when name is a non-empty, valid UTF-8 run of
\* bytes other than `}` ...
C6_Utf8NamedDirectives ==
    DirectiveReturned =>
        \A m \in DOMAIN NameMarkers :
            IsBraceForm(m) =>
                LET name == NameOf(m)
                IN  /\ (ret.kind = "Done" /\ ret.rest = <<>>)
                            <=> (name # <<>> /\ ~HasByte(name, "}") /\ ValidUtf8(name))
                    /\ (ret.kind = "Done" /\ ret.rest = <<>>)
                            => ret.out = Text(NameMarkers[m], name)
                    /\ name = <<>> => ret.kind # "Done"

C6_Witness ==
    /\ DirectiveReturned /\ IsBraceForm(<<"^","t","o">>)
    /\ Len(NameOf(<<"^","t","o">>)) = 2
    /\ ret = Done(<<>>, Text("ResTrailer", NameOf(<<"^","t","o">>)))

C6_WitnessEmpty ==
    DirectiveReturned /\ i = <<"%", "{", "}", "C">> /\ ret.kind = "Error"

\* C7: `%{X}p` yields Port(Canonical / Local / Remote) exactly when X is
\* canonical / local / remote and `%{X}P` yields PID(PID / TID / HexTID)
\* exactly when X is pid / tid / hextid; any other brace content X is a hard
\* failure: no free-text parameter, no fallback to the default of `%p`, `%P`.
C7_PortAndPidSelectors ==
    DirectiveReturned =>
        /\ (IsBraceForm(<<"p">>) /\ ~HasByte(NameOf(<<"p">>), "}")) =>
                IF NameOf(<<"p">>) \in DOMAIN PortWords
                THEN ret = Done(<<>>, Port(PortWords[NameOf(<<"p">>)]))
                ELSE ret.kind = "Error"
        /\ (IsBraceForm(<<"P">>) /\ ~HasByte(NameOf(<<"P">>), "}")) =>
                IF NameOf(<<"P">>) \in DOMAIN PIDWords
                THEN ret = Done(<<>>, PID(PIDWords[NameOf(<<"P">>)]))
                ELSE ret.kind = "Error"

C7_Witness ==
    /\ DirectiveReturned /\ IsBraceForm(<<"P">>)
    /\ NameOf(<<"P">>) = <<"h","e","x","t","i","d">>
    /\ ret = Done(<<>>, PID("HexTID"))

C7_WitnessMismatch ==
    /\ DirectiveReturned /\ IsBraceForm(<<"p">>)
    /\ NameOf(<<"p">>) = <<"q","u","u","z">>
    /\ ret = Error("Alt")

\* ---- the tokens the driver returned, with the bytes each one matched
Returned == DriverReturned /\ ret.kind = "Done"

\* the bytes of i that token k matched
SpanBytes(k) == SubSeq(i, spans[k][1] + 1, spans[k][1] + spans[k][2])

\* token k is the Literal("%") of the escape `%%`
IsEscape(k) == ret.out[k] = Literal(<<"%">>) /\ SpanBytes(k) = <<"%", "%">>

\* token k is a Literal of the literal scanner (constant_parser)
IsTextRun(k) == ret.out[k].tag = "Literal" /\ SpanBytes(k)[1] # "%"

\* C8 as stated: no Literal token of the driver's output contains `%`.
C8_NoPercentInLiteral ==
    Returned =>
        \A k \in 1..Len(ret.out) :
            ret.out[k].tag = "Literal" => ~HasByte(ret.out[k].arg, "%")

\* C8 (amended): a Literal token of the driver's output contains no `%`,
\* unless it is the Literal("%") produced for the escape `%%`.
C8_NoPercentInTextRun ==
    Returned =>
        \A k \in 1..Len(ret.out) :
            ret.out[k].tag = "Literal" =>
                ~HasByte(ret.out[k].arg, "%") \/ IsEscape(k)

C8_Witness ==
    /\ Returned /\ Len(ret.out) >= 3
    /\ \E k \in 1..Len(ret.out) : IsEscape(k)
    /\ \E k \in 1..Len(ret.out) : IsTextRun(k) /\ Len(ret.out[k].arg) >= 2

\* C9 as stated: no two consecutive tokens of the driver's output are both
\* Literal, and every maximal run of non-`%` bytes is one Literal.
C9_NoAdjacentLiterals ==
    Returned =>
        /\ \A k \in 1..(Len(ret.out) - 1) :
                ~(ret.out[k].tag = "Literal" /\ ret.out[k + 1].tag = "Literal")
        /\ \A k \in 1..Len(ret.out) :
                IsTextRun(k) =>
                    LET next == spans[k][1] + spans[k][2] + 1
                    IN  next <= Len(i) => i[next] = "%"

\* C9 (amended): no two consecutive tokens are both Literals of the literal
\* scanner (a Literal("%") of the escape `%%` may stand next to a Literal),
\* and every text run reaches to the next `%` or the end of the input.
C9_NoAdjacentTextRuns ==
    Returned =>
        /\ \A k \in 1..(Len(ret.out) - 1) :
                (ret.out[k].tag = "Literal" /\ ret.out[k + 1].tag = "Literal")
                    => (IsEscape(k) \/ IsEscape(k + 1))
        /\ \A k \in 1..Len(ret.out) :
                IsTextRun(k) =>
                    LET next == spans[k][1] + spans[k][2] + 1
                    IN  next <= Len(i) => i[next] = "%"

C9_Witness ==
    /\ Returned /\ Len(ret.out) >= 3
    /\ IsTextRun(1) /\ Len(ret.out[1].arg) >= 2
    /\ IsEscape(2) /\ IsTextRun(3)

\* the input rebuilt from the tokens: a Literal gives its text, any other
\* token the bytes it matched
RECURSIVE Rebuild(_)
Rebuild(k) ==
    IF k = 0 THEN <<>>
    ELSE Rebuild(k - 1) \o
         (IF ret.out[k].tag = "Literal" THEN ret.out[k].arg ELSE SpanBytes(k))

\* the same, with the Literal("%") of `%%` counted as a directive
RECURSIVE RebuildEscaped(_)
RebuildEscaped(k) ==
    IF k = 0 THEN <<>>
    ELSE RebuildEscaped(k - 1) \o
         (IF IsTextRun(k) THEN ret.out[k].arg ELSE SpanBytes(k))

\* the spans of the tokens are in order, contiguous and non-overlapping,
\* from offset 0 to the end of the input
SpansTile ==
    /\ Len(spans) = Len(ret.out)
    /\ \A k \in 1..Len(spans) : spans[k][2] >= 1
    /\ Len(spans) >= 1 => spans[1][1] = 0
    /\ \A k \in 1..(Len(spans) - 1) : spans[k + 1][1] = spans[k][1] + spans[k][2]
    /\ Len(spans) >= 1 => spans[Len(spans)][1] + spans[Len(spans)][2] = Len(i)

\* C10 as stated: when the parse is fully consumed the tokens' spans are
\* contiguous, non-overlapping and in order, and the Literals' text with the
\* directives' matched bytes concatenate to the input.
C10_RoundTrip ==
    FullyConsumed => (SpansTile /\ Rebuild(Len(ret.out)) = i)

\* C10 (amended): ... the text of the literal scanner's Literals with the
\* matched bytes of every other token (the `%%` of a Literal("%") among
\* them) concatenate to the input.
C10_RoundTripEscaped ==
    FullyConsumed => (SpansTile /\ RebuildEscaped(Len(ret.out)) = i)

C10_Witness ==
    /\ FullyConsumed /\ Len(ret.out) >= 3
    /\ \E k \in 1..Len(ret.out) : IsEscape(k)
    /\ \E k \in 1..Len(ret.out) : IsTextRun(k)
    /\ \E k \in 1..Len(ret.out) : ret.out[k].tag = "ReqHeader"
    /\ RebuildEscaped(Len(ret.out)) = i

(***************************************************************************)
(* Termination of the driver.  many0! is a sequential loop: once entered,  *)
(* the next iteration always runs, which is weak fairness on Next.         *)
(***************************************************************************)
FairSpec == Spec /\ WF_vars(Next)

\* One of the arms of the loop applies: the input is exhausted, or the token
\* parser returned one of the three outcomes the loop matches on.
SomeArmApplies ==
    \/ Len(input) = 0
    \/ Run(token_parser, input).kind \in {"Done", "Error", "Incomplete"}

\* C11: the driver loop of logformat_parser terminates on every format
\* string, and every step that appends a token (a directive or a literal
\* run) appends exactly one and moves the input position forward by at
\* least one byte, so the number of tokens never exceeds the number of bytes
\* consumed, and hence never the input length.  Termination is stated in the
\* form a finite run refutes: an iteration that stays in the loop strictly
\* shortens the remaining input, and in the loop some arm always applies.
C11_TerminatesAndAdvances ==
    /\ [][Len(res') > Len(res)
            => /\ Len(input') < Len(input)
               /\ Len(res') = Len(res) + 1]_vars
    /\ [][(pc = "loop" /\ pc' = "loop") => Len(input') < Len(input)]_vars
    /\ [](pc = "loop" => SomeArmApplies)
    /\ [](/\ Len(res) <= Len(i) - Len(input)
          /\ Len(res) <= Len(i))

\* The driver is never stuck before it has returned.
C11_NeverStuck == pc = "returned" \/ ENABLED Next

\* The same termination as a liveness property of FairSpec: a call that has
\* entered the loop eventually returns.
C11_Terminates == (pc = "loop") ~> (pc = "returned")

\* The driver has returned after several successful steps.
C11_Witness ==
    /\ DriverReturned
    /\ Len(res) >= 3
    /\ Len(input) < Len(i)

\* ---- the three ways a directive can fail to parse, as shapes of the bytes
\* at the position where the parse stopped
\* `%{` with no `}` before the input ends
Unterminated(s) == StartsWith(s, <<"%", "{">>) /\ ~HasByte(s, "}")

\* `%` followed by a byte that starts no directive
UnknownCode(s) ==
    /\ Len(s) >= 2
    /\ s[1] = "%"
    /\ s[2] \notin (DOMAIN CodeTable \cup {"{", ">"})

\* `%{X}p` with X not a Port word, or `%{X}P` with X not a PID word
SelectorMismatch(s) ==
    /\ StartsWith(s, <<"%", "{">>)
    /\ HasByte(s, "}")
    /\ LET close == Position({"}"}, s) + 1
           name  == SubSeq(s, 3, close - 1)
       IN  /\ Len(s) > close
           /\ \/ s[close + 1] = "p" /\ name \notin DOMAIN PortWords
              \/ s[close + 1] = "P" /\ name \notin DOMAIN PIDWords

\* C12: a `%{` that is never closed by `}` before the input ends is reported
\* as Incomplete (with the size one byte past the end of the input), both by
\* directive_parser and by the driver when it stops there; an unknown code
\* such as `%z` and a selector mismatch such as `%{quuz}p` are reported
\* otherwise: as Error(Alt) by directive_parser, and by the driver as Done
\* with the unparsed bytes left in the rest.
C12_UnterminatedIsDistinct ==
    /\ DirectiveReturned
        => /\ Unterminated(i) => ret = Incomplete(Len(i) + 1)
           /\ (UnknownCode(i) \/ SelectorMismatch(i)) => ret = Error("Alt")
    /\ DriverReturned
        => /\ Unterminated(input) => ret = Incomplete(Len(i) + 1)
           /\ (UnknownCode(input) \/ SelectorMismatch(input))
                => ret = Done(input, res)

\* The driver stops at an unterminated `%{` after at least one token.
C12_Witness ==
    /\ DriverReturned
    /\ Unterminated(input)
    /\ Len(input) >= 3
    /\ Len(res) >= 1
    /\ ret.kind = "Incomplete"

\* directive_parser on an unterminated `%{name`.
C12_WitnessDirective ==
    /\ DirectiveReturned
    /\ Unterminated(i)
    /\ Len(i) >= 4
    /\ ret.kind = "Incomplete"

\* The driver stops at a selector mismatch after at least one token.
C12_WitnessMismatch ==
    /\ DriverReturned
    /\ SelectorMismatch(input)
    /\ Len(res) >= 1
    /\ ret.kind = "Done"

\* directive_parser on an unknown code.
C12_WitnessUnknown ==
    /\ DirectiveReturned
    /\ UnknownCode(i)
    /\ ret = Error("Alt")

====
